---- MODULE Spec2Model ----
(***************************************************************************)
(* A model of 8puzzle.c: the board functions, the closed set (open         *)
(* addressing hash table), the open set (4-ary min-heap) and the A* loop   *)
(* of solve, with reconstruct_path.                                        *)
(*                                                                         *)
(* C arrays are 0-based; a TLA+ sequence holding one keeps element i of    *)
(* the array at position i + 1.  A puzzle* is the position of the puzzle   *)
(* in the list `puzzles` (every puzzle is pushed to that list right after  *)
(* it is allocated), and NULL is 0.                                        *)
(***************************************************************************)
EXTENDS Integers, Sequences, FiniteSets, TLC

\* ------------------------------------------------------------ constants

SIZE == 9
ROWS == 3
NEIGHBOR_CNT == 4
LONGEST_SOL == 32
CHILD_CNT == 4
INT_MAX == 2147483647

\* enum move {NONE, UP, DOWN, LEFT, RIGHT}
NONE == 0
UP == 1
DOWN == 2
LEFT == 3
RIGHT == 4

NEIGHBOR_OFFSETS == << <<0, 1>>, <<1, 0>>, <<0, -1>>, <<-1, 0>> >>

\* a variant of NEIGHBOR_MOVES that names the direction the tile moves
NEIGHBOR_MOVES_tile == <<LEFT, UP, RIGHT, DOWN>>

NEIGHBOR_MOVES == <<RIGHT, DOWN, LEFT, UP>>
MOVE_STRINGS == <<"Start", "Up", "Down", "Left", "Right">>

\* board goal_brd = {1, 2, 3, 4, 5, 6, 7, 8, 0} in main
goal_brd == <<1, 2, 3, 4, 5, 6, 7, 8, 0>>

\* ------------------------------------------------------------ C arithmetic

\* abs() of <stdlib.h>
abs(x) == IF x < 0 THEN -x ELSE x

\* C's integer division, which truncates toward zero: (0 - 1) / 4 is 0
CDiv(a, b) == IF a >= 0 THEN a \div b ELSE -((-a) \div b)

\* ------------------------------------------------------------ boards

\* the value of brd[i], i counted from 0 as in the source
Tile(brd, i) == brd[i + 1]

\* a variant of hash_board with the multiplier 8 in place of 10
hash_board_base8(brd) == LET RECURSIVE Sum(_)
                             Sum(i) == IF i = SIZE THEN 0
                                       ELSE Tile(brd, i) * (8 ^ i) + Sum(i + 1)
                         IN Sum(0)

\* hash += board[i] * (int) pow(10, i), for i = 0 .. SIZE - 1
hash_board(brd) == LET RECURSIVE Sum(_)
                       Sum(i) == IF i = SIZE THEN 0
                                 ELSE Tile(brd, i) * (10 ^ i) + Sum(i + 1)
                   IN Sum(0)

\* the first i with brd[i] == 0; -1 stands for the exit(1) after the loop
find_zero(brd) == IF \E i \in 0 .. SIZE - 1 : Tile(brd, i) = 0
                  THEN CHOOSE i \in 0 .. SIZE - 1 :
                         /\ Tile(brd, i) = 0
                         /\ \A j \in 0 .. i - 1 : Tile(brd, j) # 0
                  ELSE -1

\* a variant of move_board that tests swap_loc against the array bounds only
move_board_wrap(brd_in, row_offset, col_offset) ==
    LET zero_loc == find_zero(brd_in)
        swap_loc == ((zero_loc % ROWS) + col_offset) + ROWS * ((zero_loc \div ROWS) + row_offset)
    IN IF zero_loc = -1
       THEN [exit |-> TRUE, ret |-> 1, brd_out |-> brd_in, brd_in |-> brd_in]
       ELSE IF swap_loc < 0 \/ swap_loc >= SIZE
       THEN [exit |-> FALSE, ret |-> 1, brd_out |-> brd_in, brd_in |-> brd_in]
       ELSE [exit |-> FALSE, ret |-> 0, brd_in |-> brd_in,
             brd_out |-> [brd_in EXCEPT ![zero_loc + 1] = brd_in[swap_loc + 1],
                                        ![swap_loc + 1] = brd_in[zero_loc + 1]]]

\* brd_out is a copy of brd_in; ret 1 when the blank would leave the grid,
\* otherwise the blank and the tile at the swap location change places in
\* brd_out.  brd_in is the caller's board after the call: it is only read.
\* exit is the exit(1) of find_zero on a board without a blank.
move_board(brd_in, row_offset, col_offset) ==
    LET zero_loc == find_zero(brd_in)
        zero_row == zero_loc \div ROWS
        zero_col == zero_loc % ROWS
        swap_row == zero_row + row_offset
        swap_col == zero_col + col_offset
        swap_loc == swap_col + ROWS * swap_row
    IN IF zero_loc = -1
       THEN [exit |-> TRUE, ret |-> 1, brd_out |-> brd_in, brd_in |-> brd_in]
       ELSE IF swap_row < 0 \/ swap_row >= ROWS \/ swap_col < 0 \/ swap_col >= ROWS
       THEN [exit |-> FALSE, ret |-> 1, brd_out |-> brd_in, brd_in |-> brd_in]
       ELSE [exit |-> FALSE, ret |-> 0, brd_in |-> brd_in,
             brd_out |-> [brd_in EXCEPT ![zero_loc + 1] = brd_in[swap_loc + 1],
                                        ![swap_loc + 1] = brd_in[zero_loc + 1]]]

\* row2 = brd[i] / SIZE and col2 = brd[i] % SIZE, as the source has them
heuristic(brd) == LET RECURSIVE Sum(_)
                      Sum(i) == IF i = SIZE THEN 0
                                ELSE LET row1 == i \div ROWS
                                         col1 == i % ROWS
                                         row2 == Tile(brd, i) \div SIZE
                                         col2 == Tile(brd, i) % SIZE
                                     IN abs(row2 - row1) + abs(col2 - col1) + Sum(i + 1)
                  IN Sum(0)

\* ------------------------------------------------------------ closed set

\* A hash_table is [table, size, capacity]: table has capacity slots and 0
\* is the empty slot.  spin records that a for (;;) probe loop found neither
\* an empty slot nor (in ht_has_key) the key: that loop never ends.

\* for (i = 2; i <= sqrt(n); i++) if (n % i == 0) return 0; then n <= 1.
\* sqrt(n) is below 46341 for every int n, which keeps i * i an int here.
is_prime(n) == /\ \A i \in 2 .. (IF n < 46340 THEN n ELSE 46340) :
                     i * i <= n => n % i # 0
               /\ n > 1

\* a variant of next_prime that stops at the first odd number
next_prime_odd(n) == IF n % 2 = 1 THEN n ELSE n + 1

\* the first i >= n with is_prime(i)
next_prime(n) == LET RECURSIVE Scan(_)
                     Scan(i) == IF is_prime(i) THEN i ELSE Scan(i + 1)
                 IN Scan(n)

\* calloc(n, sizeof(hash_t)): n zeroed slots
RECURSIVE calloc(_)
calloc(n) == IF n = 0 THEN << >>
             ELSE IF n = 1 THEN <<0>>
             ELSE LET half == calloc(n \div 2)
                  IN IF n % 2 = 0 THEN half \o half ELSE (half \o half) \o <<0>>

new_ht == LET cap == next_prime(10)
          IN [table |-> calloc(cap), size |-> 0, capacity |-> cap,
              spin |-> FALSE]

\* (h + i) % ht->capacity
probe(ht, h, i) == (h + i) % ht.capacity

\* the i at which a probe loop stops: the first i in lo, lo + 1, ... whose
\* slot probe(ht, key, i) holds one of the values in stop; -1 when the probes
\* up to capacity - 1 met none (the probes repeat from there on, so the loop
\* never ends).  The probes are examined a stretch lo .. hi at a time.
RECURSIVE ProbeFrom(_, _, _, _)
ProbeFrom(ht, key, stop, lo) ==
    LET Stops(i) == ht.table[probe(ht, key, i) + 1] \in stop
        hi == IF 2 * lo + 1 < ht.capacity THEN 2 * lo + 1 ELSE ht.capacity - 1
    IN IF lo >= ht.capacity THEN -1
       ELSE IF \E i \in lo .. hi : Stops(i)
            THEN CHOOSE i \in lo .. hi : Stops(i) /\ \A j \in lo .. i - 1 : ~Stops(j)
            ELSE ProbeFrom(ht, key, stop, hi + 1)

FirstProbe(ht, key, stop) == ProbeFrom(ht, key, stop, 0)

\* the key is stored in the first empty slot of its probe sequence
probe_ht(ht, key) == LET i == FirstProbe(ht, key, {0})
                     IN IF i = -1 THEN [ht EXCEPT !.spin = TRUE]
                        ELSE [ht EXCEPT !.table[probe(ht, key, i) + 1] = key]

\* a variant of ht_has_key that never finds a key
ht_has_key_miss(ht, key) == 0

\* 1 at the first slot holding key, 0 at the first empty slot, whichever the
\* probe sequence meets first; -1 when it meets neither (the loop never ends)
ht_has_key(ht, key) ==
    LET i == FirstProbe(ht, key, {0, key})
    IN IF i = -1 THEN -1
       ELSE IF ht.table[probe(ht, key, i) + 1] = 0 THEN 0 ELSE 1

\* The loop of rehash over the old slots lo .. hi in ascending order, as a
\* fold that splits the range in two (left half first).  A probe_ht that
\* never returns (spin) ends it: no later slot is visited.
RECURSIVE RehashRange(_, _, _, _)
RehashRange(ht, old_table, lo, hi) ==
    IF lo > hi THEN ht
    ELSE IF lo = hi
         THEN IF old_table[lo + 1] # 0 THEN probe_ht(ht, old_table[lo + 1]) ELSE ht
         ELSE LET mid == (lo + hi) \div 2
                  left == RehashRange(ht, old_table, lo, mid)
              IN IF left.spin THEN left
                 ELSE RehashRange(left, old_table, mid + 1, hi)

\* a variant of rehash that leaves the old keys out of the new table
rehash_drop(ht) ==
    LET cap == next_prime(ht.capacity * 2)
    IN [ht EXCEPT !.capacity = cap, !.table = calloc(cap)]

\* capacity = next_prime(capacity * 2), a zeroed table, every non-empty old
\* slot probed into it; size is left as it is
rehash(ht) ==
    LET old_capacity == ht.capacity
        old_table == ht.table
        cap == next_prime(ht.capacity * 2)
    IN RehashRange([ht EXCEPT !.capacity = cap, !.table = calloc(cap)],
                   old_table, 0, old_capacity - 1)

\* a variant of the load test that never asks for a rehash
LoadExceeded_never(ht) == FALSE

\* (float) size / (float) capacity > LF_THRESHOLD.  capacity is a prime, so
\* size / capacity is never exactly 7/10, and the float quotient is on the
\* same side of 0.7f as the exact one for every capacity below 2.4 million.
LoadExceeded(ht) == ht.size * 10 > ht.capacity * 7

\* the rehash when the load factor exceeds the threshold, then probe_ht and
\* size++ (neither is reached when the rehash never returns)
insert_into_ht(ht, key) ==
    LET grown == IF LoadExceeded(ht) THEN rehash(ht) ELSE ht
        probed == probe_ht(grown, key)
    IN IF grown.spin THEN grown
       ELSE [probed EXCEPT !.size = ht.size + 1]

\* ------------------------------------------------------------ open set

\* A priority_q is [min_heap, size, capacity]; min_heap holds puzzle
\* pointers and is kept here only up to its last written slot.  The f of a
\* queued puzzle is read through the pointer from the list of puzzles.

new_pq == [min_heap |-> << >>, size |-> 0, capacity |-> 10]

ensure_capacity(pq) == IF pq.size >= pq.capacity
                       THEN [pq EXCEPT !.capacity = pq.capacity * 2]
                       ELSE pq

Swap(heap, a, b) == [heap EXCEPT ![a + 1] = heap[b + 1], ![b + 1] = heap[a + 1]]

\* the while (parent >= 0) loop of push_pq, from position pos
RECURSIVE SiftUp(_, _, _)
SiftUp(heap, pos, nodes) ==
    LET parent == CDiv(pos - 1, CHILD_CNT)
    IN IF nodes[heap[pos + 1]].f < nodes[heap[parent + 1]].f
       THEN SiftUp(Swap(heap, pos, parent), parent, nodes)
       ELSE heap

\* a variant of push_pq that stores the puzzle at the end and stops there
push_pq_no_sift(pq, puz, nodes) ==
    LET q == ensure_capacity(pq)
    IN [q EXCEPT !.min_heap = SubSeq(q.min_heap, 1, q.size) \o <<puz>>,
                 !.size = q.size + 1]

\* the puzzle is stored at min_heap[size] and sifted up while its f is
\* below its parent's; parent = (pos - 1) / CHILD_CNT with C's division
push_pq(pq, puz, nodes) ==
    LET q == ensure_capacity(pq)
        placed == SubSeq(q.min_heap, 1, q.size) \o <<puz>>
    IN [q EXCEPT !.min_heap = SiftUp(placed, q.size, nodes), !.size = q.size + 1]

\* the smallest child of pos among first_child .. first_child + CHILD_CNT - 1
\* below size, the leftmost one on ties
SmallestChild(heap, size, first_child, nodes) ==
    LET RECURSIVE Scan(_, _)
        Scan(i, child) ==
            IF i >= CHILD_CNT \/ first_child + i >= size THEN child
            ELSE IF nodes[heap[first_child + i + 1]].f < nodes[heap[child + 1]].f
                 THEN Scan(i + 1, first_child + i)
                 ELSE Scan(i + 1, child)
    IN Scan(1, first_child)

\* the for (;;) loop of pop_pq from position pos; size is the size before
\* the decrement, so the slot size - 1 still holds the element moved to the top
RECURSIVE SiftDown(_, _, _, _)
SiftDown(heap, size, pos, nodes) ==
    LET first_child == CHILD_CNT * pos + 1
        child == SmallestChild(heap, size, first_child, nodes)
    IN IF first_child >= size THEN heap
       ELSE IF nodes[heap[pos + 1]].f > nodes[heap[child + 1]].f
            THEN SiftDown(Swap(heap, pos, child), size, child, nodes)
            ELSE heap

\* a variant of pop_pq that moves the last slot to the top and stops there
pop_pq_no_sift(pq, nodes) ==
    IF pq.size = 0 THEN [exit |-> TRUE, top |-> 0, pq |-> pq]
    ELSE [exit |-> FALSE, top |-> pq.min_heap[1],
          pq |-> [pq EXCEPT !.min_heap = SubSeq([pq.min_heap EXCEPT ![1] = pq.min_heap[pq.size]],
                                                1, pq.size - 1),
                            !.size = pq.size - 1]]

\* exit is the exit(1) on an empty heap; otherwise top is min_heap[0], the last
\* element is copied to the top and sifted down, and size is decremented
pop_pq(pq, nodes) ==
    IF pq.size = 0 THEN [exit |-> TRUE, top |-> 0, pq |-> pq]
    ELSE LET moved == [pq.min_heap EXCEPT ![1] = pq.min_heap[pq.size]]
             sifted == SiftDown(moved, pq.size, 0, nodes)
         IN [exit |-> FALSE, top |-> pq.min_heap[1],
             pq |-> [pq EXCEPT !.min_heap = SubSeq(sifted, 1, pq.size - 1),
                               !.size = pq.size - 1]]

\* ------------------------------------------------------------ puzzles

\* memcpy of the board, move = NONE, parent = NULL, f = 0, g = 0
new_puzzle(brd) == [parent |-> 0, board |-> brd, move |-> NONE, g |-> 0, f |-> 0]

new_list == [arr |-> << >>, size |-> 0, capacity |-> 10]

\* arr is kept up to size; the capacity doubles when size reaches it
push_list(ls, puz) ==
    [arr |-> Append(ls.arr, puz), size |-> ls.size + 1,
     capacity |-> IF ls.size >= ls.capacity THEN ls.capacity * 2 ELSE ls.capacity]

\* ------------------------------------------------------------ solve

\* The state of one call of solve: s.pc is where the call stands,
\*   "loop"           at the head of the while loop,
\*   "solved"         after the break that follows reconstruct_path,
\*   "loop_exit"      after the loop condition failed,
\*   "exit_empty_pop" exit(1) in pop_pq, "exit_no_zero" exit(1) in find_zero,
\*   "spin"           inside a probe loop that never ends,
\*   "path_overflow"  reconstruct_path wrote past path[LONGEST_SOL - 1].

\* the chain leaf_puz, leaf_puz->parent, ... up to the root, as the first
\* loop of reconstruct_path stores it in path[0 .. count - 1]
RECURSIVE Chain(_, _)
Chain(nodes, leaf_puz) ==
    IF leaf_puz = 0 THEN << >>
    ELSE <<leaf_puz>> \o Chain(nodes, nodes[leaf_puz].parent)

Reverse(seq) == [i \in 1 .. Len(seq) |-> seq[Len(seq) + 1 - i]]

\* a variant of reconstruct_path that prints path[0] first
reconstruct_path_leaf_first(nodes, leaf_puz) ==
    LET path == Chain(nodes, leaf_puz)
        count == Len(path)
    IN [overflow |-> count > LONGEST_SOL, leaf |-> leaf_puz,
        lines |-> [i \in 1 .. count |->
                     [move |-> MOVE_STRINGS[nodes[path[i]].move + 1],
                      board |-> nodes[path[i]].board]],
        steps |-> count - 1]

\* what reconstruct_path prints: for i = count - 1 down to 0 the move string
\* and the board of path[i], then "Solved in count - 1 steps".  overflow: the
\* chain has more than LONGEST_SOL entries and the first loop wrote past path.
\* leaf is the argument, kept to tell which puzzle the output belongs to.
reconstruct_path(nodes, leaf_puz) ==
    LET path == Chain(nodes, leaf_puz)
        count == Len(path)
    IN [overflow |-> count > LONGEST_SOL, leaf |-> leaf_puz,
        lines |-> Reverse([i \in 1 .. count |->
                             [move |-> MOVE_STRINGS[nodes[path[i]].move + 1],
                              board |-> nodes[path[i]].board]]),
        steps |-> count - 1]

NoOutput == [overflow |-> FALSE, leaf |-> 0, lines |-> << >>, steps |-> -1]

\* lines 394 - 402: the root is listed and queued with f = 0 and g = 0
SolveStart(initial) ==
    LET root == new_puzzle(initial)
        ls == push_list(new_list, root)
    IN [pc |-> "loop", puzzles |-> ls,
        open_set |-> push_pq(new_pq, ls.size, ls.arr),
        closed_set |-> new_ht, printed |-> NoOutput]

\* lines 428 - 438: the neighbor of current_puz reached by offset i
PushNeighbor(s, current_puz, neighbor_board, i) ==
    LET g == s.puzzles.arr[current_puz].g + 1
        neighbor_puz == [new_puzzle(neighbor_board) EXCEPT
                           !.parent = current_puz, !.g = g,
                           !.f = g + heuristic(neighbor_board),
                           !.move = NEIGHBOR_MOVES[i + 1]]
        ls == push_list(s.puzzles, neighbor_puz)
    IN [s EXCEPT !.puzzles = ls,
                 !.open_set = push_pq(s.open_set, ls.size, ls.arr)]

\* lines 419 - 440: the for loop over the offsets i .. NEIGHBOR_CNT - 1
RECURSIVE Neighbors(_, _, _)
Neighbors(s, current_puz, i) ==
    IF i >= NEIGHBOR_CNT THEN s
    ELSE LET moved == move_board(s.puzzles.arr[current_puz].board,
                                 NEIGHBOR_OFFSETS[i + 1][1], NEIGHBOR_OFFSETS[i + 1][2])
             has == ht_has_key(s.closed_set, hash_board(moved.brd_out))
             pushed == PushNeighbor(s, current_puz, moved.brd_out, i)
         IN IF moved.exit THEN [s EXCEPT !.pc = "exit_no_zero"]
            ELSE IF moved.ret # 0 THEN Neighbors(s, current_puz, i + 1)
            ELSE IF has = -1 THEN [s EXCEPT !.pc = "spin"]
            ELSE IF has # 0 THEN Neighbors(s, current_puz, i + 1)
            ELSE IF pushed.pc = "loop" THEN Neighbors(pushed, current_puz, i + 1)
            ELSE pushed

\* lines 405 - 441: one pass through the body of the while loop.  The loop
\* condition open_set->size >= 0 holds of every size, so it guards nothing.
Iterate(s, goal_hash) ==
    LET popped == pop_pq(s.open_set, s.puzzles.arr)
        current_puz == popped.top
        current_hash == hash_board(s.puzzles.arr[current_puz].board)
        closed == insert_into_ht(s.closed_set, current_hash)
        t == [s EXCEPT !.open_set = popped.pq, !.closed_set = closed]
        out == reconstruct_path(s.puzzles.arr, current_puz)
    IN IF ~(s.open_set.size >= 0) THEN [s EXCEPT !.pc = "loop_exit"]
       ELSE IF popped.exit THEN [s EXCEPT !.pc = "exit_empty_pop"]
       ELSE IF closed.spin THEN [t EXCEPT !.pc = "spin"]
       ELSE IF current_hash = goal_hash
            THEN [t EXCEPT !.printed = out,
                           !.pc = IF out.overflow THEN "path_overflow" ELSE "solved"]
            ELSE Neighbors(t, current_puz, 0)

\* The while loop of solve followed for at most n passes, as a fold that
\* splits the passes in two (the first half first); it stops where the loop stops.
RECURSIVE Run(_, _, _)
Run(s, goal_hash, n) ==
    IF n <= 0 \/ s.pc # "loop" THEN s
    ELSE IF n = 1 THEN Iterate(s, goal_hash)
    ELSE LET half == Run(s, goal_hash, n \div 2)
         IN IF half.pc # "loop" THEN half
            ELSE Run(half, goal_hash, n - n \div 2)

\* ------------------------------------------------------------ main

\* The digits of the input file in order (parse_board skips every other
\* character).  With fewer than 9 digits parse_board exits; the first 9 fill
\* brd.  Inputs of more than 9 digits, which write past brd, are left out.
parse_board(digits) ==
    [exit |-> Len(digits) < SIZE,
     brd |-> [i \in 1 .. SIZE |-> IF i <= Len(digits) THEN digits[i] ELSE 0]]

\* ------------------------------------------------------------ bounds

\* initial boards are taken up to MaxScramble moves away from the goal
MaxScramble == 3
\* the while loop of solve is followed for at most MaxIters passes
MaxIters == 300
\* the queue driver allocates at most MaxPushes puzzles, with f in 0 .. MaxF
MaxPushes == 6
MaxF == 2
\* the table driver inserts at most MaxInserts keys
MaxInserts == 10
\* whole calls of solve: boards up to MaxRunScramble moves away from the goal
\* and DeepBoard, each followed for at most MaxRunIters passes
MaxRunScramble == 5
MaxRunIters == 40000

\* the boards one legal or illegal move_board call away from b
Moves(b) == {move_board(b, NEIGHBOR_OFFSETS[i][1], NEIGHBOR_OFFSETS[i][2]).brd_out :
               i \in 1 .. NEIGHBOR_CNT}

RECURSIVE Scrambled(_)
Scrambled(k) == IF k = 0 THEN {goal_brd}
                ELSE LET prev == Scrambled(k - 1)
                     IN prev \cup UNION {Moves(b) : b \in prev}

\* a board without a blank, boards with repeated tiles (the goal cannot be
\* reached from them) and an input of fewer than 9 digits
OtherInputs == { <<1, 2, 3, 4, 5, 6, 7, 8, 9>>,
                 <<0, 1, 1, 1, 1, 1, 1, 1, 1>>,
                 <<1, 1, 1, 1, 0, 1, 1, 1, 1>>,
                 <<1, 1, 1, 1, 1, 1, 1, 2, 0>>,
                 <<1, 2, 3, 4, 5, 6, 7, 8>> }

\* a board 4 moves away from the goal
StaleBoard == <<0, 1, 3, 4, 2, 5, 7, 8, 6>>

Inputs == Scrambled(MaxScramble) \cup OtherInputs \cup {StaleBoard}

\* a board 16 moves away from the goal
DeepBoard == <<0, 1, 3, 4, 8, 6, 2, 5, 7>>

RunInputs == Scrambled(MaxRunScramble) \cup {DeepBoard}

\* the goal and a board of the other parity: every permutation of 0 .. 8 is
\* some number of moves away from one of the two
BoardSeeds == {goal_brd, <<2, 1, 3, 4, 5, 6, 7, 8, 0>>}

\* fingerprints the table driver inserts, and others it only looks up
InsertKeys == {hash_board(goal_brd),
               hash_board(<<1, 2, 3, 4, 5, 0, 7, 8, 6>>),
               hash_board(<<1, 2, 3, 4, 0, 5, 7, 8, 6>>),
               hash_board(<<1, 2, 3, 0, 4, 5, 7, 8, 6>>)}
LookupBoards == Scrambled(3)
LookupKeys == InsertKeys \cup {hash_board(b) : b \in LookupBoards}

\* ------------------------------------------------------------ state

VARIABLES
    input,        \* the digits of the input file
    initial_brd,  \* main's initial_brd
    pc,           \* where the program stands
    puzzles,      \* the list of all puzzles
    open_set,     \* the priority queue
    closed_set,   \* the hash table
    printed,      \* what reconstruct_path printed
    freed,        \* the puzzle pointers passed to free, in order
    iters,        \* passes through the while loop so far
    inserted,     \* the keys passed to insert_into_ht so far
    pops,         \* the pointers pop_pq returned since the last push_pq
    brd           \* the board the board functions are applied to

vars == <<input, initial_brd, pc, puzzles, open_set, closed_set, printed, freed,
          iters, inserted, pops, brd>>

Blank == [i \in 1 .. SIZE |-> 0]

InitAt(start) == /\ pc = start
                 /\ input = << >>
                 /\ initial_brd = Blank
                 /\ puzzles = new_list
                 /\ open_set = new_pq
                 /\ closed_set = new_ht
                 /\ printed = NoOutput
                 /\ freed = << >>
                 /\ iters = 0
                 /\ inserted = {}
                 /\ pops = << >>
                 /\ brd = Blank

\* ------------------------------------------------------------ the program

Init == \E digits \in Inputs :
          /\ input = digits
          /\ initial_brd = Blank
          /\ pc = "main"
          /\ puzzles = new_list
          /\ open_set = new_pq
          /\ closed_set = new_ht
          /\ printed = NoOutput
          /\ freed = << >>
          /\ iters = 0
          /\ inserted = {}
          /\ pops = << >>
          /\ brd = Blank

\* main, lines 511 - 512
main_parse ==
    /\ pc = "main"
    /\ initial_brd' = parse_board(input).brd
    /\ pc' = IF parse_board(input).exit THEN "exit_parse" ELSE "parsed"
    /\ UNCHANGED <<input, puzzles, open_set, closed_set, printed, freed, iters,
                   inserted, pops, brd>>

\* solve, lines 394 - 402
solve_start ==
    /\ pc = "parsed"
    /\ LET s == SolveStart(initial_brd)
       IN /\ pc' = s.pc
          /\ puzzles' = s.puzzles
          /\ open_set' = s.open_set
          /\ closed_set' = s.closed_set
          /\ printed' = s.printed
    /\ UNCHANGED <<input, initial_brd, freed, iters, inserted, pops, brd>>

\* solve, lines 405 - 441: one pass through the while loop
solve_iterate ==
    /\ pc = "loop"
    /\ iters < MaxIters
    /\ LET s == Iterate([pc |-> pc, puzzles |-> puzzles, open_set |-> open_set,
                         closed_set |-> closed_set, printed |-> printed],
                        hash_board(goal_brd))
           popped == pop_pq(open_set, puzzles.arr)
       IN /\ pc' = s.pc
          /\ puzzles' = s.puzzles
          /\ open_set' = s.open_set
          /\ closed_set' = s.closed_set
          /\ printed' = s.printed
          /\ inserted' = IF popped.exit THEN inserted
                         ELSE inserted \cup {hash_board(puzzles.arr[popped.top].board)}
          /\ pops' = IF popped.exit THEN pops
                     ELSE IF s.puzzles.size > puzzles.size THEN << >>
                     ELSE Append(pops, popped.top)
    /\ iters' = iters + 1
    /\ UNCHANGED <<input, initial_brd, freed, brd>>

\* solve, lines 443 - 453: every listed puzzle is freed, then the list, the
\* table and the heap
solve_free ==
    /\ pc \in {"solved", "loop_exit"}
    /\ freed' = [i \in 1 .. puzzles.size |-> i]
    /\ pc' = "returned"
    /\ UNCHANGED <<input, initial_brd, puzzles, open_set, closed_set, printed, iters,
                   inserted, pops, brd>>

Next == main_parse \/ solve_start \/ solve_iterate \/ solve_free

Spec == Init /\ [][Next]_vars

\* ------------------------------------------------------------ whole calls of solve

InitRun == \E digits \in RunInputs :
             /\ input = digits
             /\ initial_brd = Blank
             /\ pc = "main"
             /\ puzzles = new_list
             /\ open_set = new_pq
             /\ closed_set = new_ht
             /\ printed = NoOutput
             /\ freed = << >>
             /\ iters = 0
             /\ inserted = {}
             /\ pops = << >>
             /\ brd = Blank

\* solve, lines 393 - 454: the call from its first line to its return or
\* exit.  The list, the heap and the table live only inside the call (lines
\* 443 - 453 free them, exit drops them), so after it the variables that
\* hold them are back at their values from before the call; what stays is
\* the output, the record of what was freed and the count of passes.
solve_run ==
    /\ pc = "parsed"
    /\ \E s \in {Run(SolveStart(initial_brd), hash_board(goal_brd), MaxRunIters)} :
          /\ pc' = IF s.pc \in {"solved", "loop_exit"} THEN "returned" ELSE s.pc
          /\ printed' = s.printed
          /\ freed' = IF s.pc \in {"solved", "loop_exit"}
                      THEN [i \in 1 .. s.puzzles.size |-> i] ELSE << >>
          /\ iters' = s.closed_set.size + (IF s.pc = "exit_empty_pop" THEN 1 ELSE 0)
          /\ inserted' = {s.closed_set.table[p] : p \in 1 .. s.closed_set.capacity} \ {0}
    /\ UNCHANGED <<input, initial_brd, puzzles, open_set, closed_set, pops, brd>>

NextRun == main_parse \/ solve_run

SpecRun == InitRun /\ [][NextRun]_vars

\* ------------------------------------------------------------ the queue alone

InitPQ == InitAt("pq")

\* a puzzle allocated with the given f (lines 428 - 435) and pushed
pq_push(f) ==
    /\ pc = "pq"
    /\ puzzles.size < MaxPushes
    /\ LET ls == push_list(puzzles, [new_puzzle(goal_brd) EXCEPT !.f = f])
       IN /\ puzzles' = ls
          /\ open_set' = push_pq(open_set, ls.size, ls.arr)
    /\ pops' = << >>
    /\ UNCHANGED <<input, initial_brd, pc, closed_set, printed, freed, iters,
                   inserted, brd>>

pq_pop ==
    /\ pc = "pq"
    /\ LET popped == pop_pq(open_set, puzzles.arr)
       IN /\ pc' = IF popped.exit THEN "exit_empty_pop" ELSE pc
          /\ open_set' = popped.pq
          /\ pops' = IF popped.exit THEN pops ELSE Append(pops, popped.top)
    /\ UNCHANGED <<input, initial_brd, puzzles, closed_set, printed, freed, iters,
                   inserted, brd>>

NextPQ == (\E f \in 0 .. MaxF : pq_push(f)) \/ pq_pop

SpecPQ == InitPQ /\ [][NextPQ]_vars

\* ------------------------------------------------------------ the table alone

InitHT == InitAt("ht")

ht_insert(key) ==
    /\ pc = "ht"
    /\ closed_set.size < MaxInserts
    /\ closed_set' = insert_into_ht(closed_set, key)
    /\ inserted' = inserted \cup {key}
    /\ UNCHANGED <<input, initial_brd, pc, puzzles, open_set, printed, freed, iters,
                   pops, brd>>

NextHT == \E key \in InsertKeys : ht_insert(key)

SpecHT == InitHT /\ [][NextHT]_vars

\* ------------------------------------------------------------ the board functions alone

InitBoard == \E b \in BoardSeeds :
               /\ brd = b
               /\ pc = "board"
               /\ input = << >>
               /\ initial_brd = Blank
               /\ puzzles = new_list
               /\ open_set = new_pq
               /\ closed_set = new_ht
               /\ printed = NoOutput
               /\ freed = << >>
               /\ iters = 0
               /\ inserted = {}
               /\ pops = << >>

\* move_board with the offsets NEIGHBOR_OFFSETS[i], where it is legal
board_move(i) ==
    /\ pc = "board"
    /\ LET moved == move_board(brd, NEIGHBOR_OFFSETS[i + 1][1], NEIGHBOR_OFFSETS[i + 1][2])
       IN /\ ~moved.exit
          /\ moved.ret = 0
          /\ brd' = moved.brd_out
    /\ UNCHANGED <<input, initial_brd, pc, puzzles, open_set, closed_set, printed,
                   freed, iters, inserted, pops>>

NextBoard == \E i \in 0 .. NEIGHBOR_CNT - 1 : board_move(i)

SpecBoard == InitBoard /\ [][NextBoard]_vars

\* ------------------------------------------------------------ what the claims speak of

IsPerm(b) == Len(b) = SIZE /\ {b[i] : i \in 1 .. SIZE} = 0 .. SIZE - 1

HasBlank(b) == \E i \in 1 .. Len(b) : b[i] = 0

\* The moves of the puzzle, named by the direction the blank moves, stated
\* on rows and columns without the program's tables.
MoveNames == {"Up", "Down", "Left", "Right"}

Delta(name) == CASE name = "Up" -> <<-1, 0>>
                 [] name = "Down" -> <<1, 0>>
                 [] name = "Left" -> <<0, -1>>
                 [] name = "Right" -> <<0, 1>>
                 [] OTHER -> <<0, 0>>

BlankAt(b) == CHOOSE i \in 1 .. SIZE : b[i] = 0

BlankRow(b, name) == ((BlankAt(b) - 1) \div 3) + Delta(name)[1]
BlankCol(b, name) == ((BlankAt(b) - 1) % 3) + Delta(name)[2]

LegalSlide(b, name) == /\ name \in MoveNames
                       /\ BlankRow(b, name) \in 0 .. 2
                       /\ BlankCol(b, name) \in 0 .. 2

Slide(b, name) == LET to == 3 * BlankRow(b, name) + BlankCol(b, name) + 1
                  IN [b EXCEPT ![BlankAt(b)] = b[to], ![to] = 0]

Successors(b) == {Slide(b, m) : m \in {n \in MoveNames : LegalSlide(b, n)}}

\* breadth-first search: the number of moves of a shortest path from the
\* boards in frontier (d moves from the start) to the goal; -1 if there is none
RECURSIVE BfsLevels(_, _, _)
BfsLevels(frontier, seen, d) ==
    IF goal_brd \in frontier THEN d
    ELSE IF frontier = {} THEN -1
    ELSE LET next == UNION {Successors(b) : b \in frontier} \ seen
         IN BfsLevels(next, seen \cup next, d + 1)

ShortestLen(b) == BfsLevels({b}, {b}, 0)

GoalHash == hash_board(goal_brd)

Terminal == {"returned", "exit_parse", "exit_empty_pop", "exit_no_zero"}

NodeF(p) == puzzles.arr[p].f

\* the smallest f among the puzzles queued in pq
MinF(pq) == CHOOSE m \in {NodeF(pq.min_heap[i]) : i \in 1 .. pq.size} :
              \A i \in 1 .. pq.size : m <= NodeF(pq.min_heap[i])

\* the digits of a fingerprint, lowest first
Unhash(h) == [i \in 1 .. SIZE |-> (h \div (10 ^ (i - 1))) % 10]

\* ------------------------------------------------------------ claims

\* C1: for a solvable initial board solve ends at a goal node whose g, the
\* reported step count, is the breadth-first shortest path length to the goal.
C1_Optimal ==
    (pc = "returned" /\ IsPerm(initial_brd)) =>
        /\ printed.steps = Len(printed.lines) - 1
        /\ printed.lines[Len(printed.lines)].board = goal_brd
        /\ printed.steps = ShortestLen(initial_brd)

\* C2: once the open set is empty the search ends as exhausted: pop_pq is
\* never called with size 0 and the process is not aborted.
C2_NoPopOfEmptyOpenSet == pc # "exit_empty_pop"

C4_PopsMinimum ==
    [][(pc = "pq" /\ open_set'.size < open_set.size) =>
          /\ Len(pops') = Len(pops) + 1
          /\ NodeF(pops'[Len(pops')]) = MinF(open_set)
          /\ \A i \in 1 .. Len(pops') - 1 : NodeF(pops'[i]) <= NodeF(pops'[i + 1])]_vars

C4_Witness ==
    /\ pc = "pq"
    /\ Len(pops) >= 3
    /\ NodeF(pops[1]) < NodeF(pops[2])
    /\ NodeF(pops[2]) < NodeF(pops[3])
    /\ open_set.size >= 2

\* C5: ht_has_key returns 1 for every key inserted so far and 0 for every key
\* never inserted, rehashes included.
C5_Membership ==
    pc = "ht" =>
        \A k \in LookupKeys :
            ht_has_key(closed_set, k) = IF k \in inserted THEN 1 ELSE 0

C5_Witness ==
    /\ pc = "ht"
    /\ closed_set.capacity > new_ht.capacity
    /\ Cardinality(inserted) = 3
    /\ \E k \in LookupKeys \ inserted :
         closed_set.table[probe(closed_set, k, 0) + 1] # 0

\* C6: heuristic is never negative, and it is 0 exactly on the goal board.
C6_ZeroIffGoal ==
    pc = "board" =>
        /\ heuristic(brd) >= 0
        /\ (heuristic(brd) = 0 <=> brd = goal_brd)

\* C7: on success the printed sequence has goal.g + 1 entries in root-to-goal
\* order: the first is the initial board with the Start move, the i-th is at
\* depth i - 1 of the chain, the last is the goal board, and the step count
\* printed is goal.g.
C7_PathShape ==
    pc \in {"solved", "returned"} =>
        LET leaf == printed.leaf
            g == puzzles.arr[leaf].g
            chain == Chain(puzzles.arr, leaf)
        IN /\ Len(printed.lines) = g + 1
           /\ printed.lines[1] = [move |-> "Start", board |-> initial_brd]
           /\ \A i \in 1 .. Len(printed.lines) :
                \E p \in 1 .. puzzles.size :
                   /\ puzzles.arr[p].g = i - 1
                   /\ puzzles.arr[p].board = printed.lines[i].board
                   /\ \E k \in 1 .. Len(chain) : chain[k] = p
           /\ printed.lines[Len(printed.lines)].board = goal_brd
           /\ printed.steps = g

C7_Witness ==
    /\ pc = "returned"
    /\ printed.steps = 3
    /\ Len(printed.lines) = 4

\* C8: each printed entry after the first is its predecessor's board with the
\* blank moved in the direction its move names, and that move is legal.
C8_RoundTrip ==
    pc \in {"solved", "returned"} =>
        \A i \in 1 .. Len(printed.lines) - 1 :
            /\ LegalSlide(printed.lines[i].board, printed.lines[i + 1].move)
            /\ Slide(printed.lines[i].board, printed.lines[i + 1].move)
                 = printed.lines[i + 1].board

C8_Witness ==
    /\ pc = "returned"
    /\ Len(printed.lines) = 4
    /\ printed.lines[2].move = "Down"
    /\ printed.lines[3].move = "Right"
    /\ printed.lines[4].move = "Down"

\* C9: a board without a blank is rejected before the search begins: nothing
\* is pushed, popped or inserted for it.
C9_RejectedBeforeSearch ==
    ~HasBlank(input) =>
        /\ pc \notin {"loop", "solved", "returned", "exit_empty_pop"}
        /\ puzzles.size = 0
        /\ open_set.size = 0
        /\ closed_set.size = 0
        /\ iters = 0

\* C10: hash_board is injective on the permutations of 0 .. 8 (the digits of
\* the fingerprint give the board back, and only the goal board has the goal's
\* fingerprint), and the fingerprint is positive and fits an int.
C10_Fingerprint ==
    pc = "board" =>
        LET h == hash_board(brd)
        IN /\ h > 0
           /\ h <= INT_MAX
           /\ Unhash(h) = brd
           /\ (h = GoalHash <=> brd = goal_brd)

C10_Witness ==
    /\ pc = "board"
    /\ brd = <<0, 1, 2, 3, 4, 5, 6, 7, 8>>
    /\ hash_board(brd) = 876543210

\* the fingerprint of the puzzle the next pass of the loop pops
NextPopHash == hash_board(puzzles.arr[pop_pq(open_set, puzzles.arr).top].board)

\* C11: no fingerprint is expanded twice: a pass of the loop that goes on to
\* generate successors pops a puzzle whose fingerprint is not yet in the
\* closed set.
C11_NoReexpansion ==
    [][(pc = "loop" /\ IsPerm(initial_brd) /\ open_set.size > 0
         /\ iters' = iters + 1 /\ NextPopHash # GoalHash)
          => NextPopHash \notin inserted]_vars

\* C12: every listed puzzle has f = g + heuristic(board); the root has g = 0,
\* every child has g = parent.g + 1.
C12_FIsGPlusH ==
    \A p \in 1 .. puzzles.size :
        LET puz == puzzles.arr[p]
        IN /\ puz.f = puz.g + heuristic(puz.board)
           /\ puz.g = IF puz.parent = 0 THEN 0 ELSE puzzles.arr[puz.parent].g + 1

\* C13: f does not decrease from a non-root parent to its child, that is, the
\* heuristic drops by at most 1 along a move.
C13_Monotone ==
    IsPerm(initial_brd) => \A p \in 1 .. puzzles.size :
        LET puz == puzzles.arr[p]
        IN (puz.parent # 0 /\ puzzles.arr[puz.parent].parent # 0) =>
              /\ puz.f >= puzzles.arr[puz.parent].f
              /\ heuristic(puz.board) >= heuristic(puzzles.arr[puz.parent].board) - 1

\* C15: after every completed insert_into_ht the load factor size / capacity
\* is at most 0.7.
C15_LoadAtMostThreshold ==
    pc = "ht" => closed_set.size * 10 <= closed_set.capacity * 7

IsPrimeRef(n) == n > 1 /\ \A d \in 2 .. n - 1 : n % d # 0

SmallestPrimeFrom(n) == CHOOSE q \in n .. 2 * n :
                          IsPrimeRef(q) /\ \A r \in n .. q - 1 : ~IsPrimeRef(r)

\* the keys stored in a table, each with the number of slots holding it
KeyBag(ht) ==
    LET keys == {ht.table[p] : p \in 1 .. ht.capacity} \ {0}
    IN [k \in keys |-> Cardinality({p \in 1 .. ht.capacity : ht.table[p] = k})]

\* C16: the capacity of the closed set is a prime in every state, and the
\* rehash that the next insert performs sets it to the smallest prime >= twice
\* the old capacity and leaves the stored keys (with their counts) and size
\* as they are.
C16_PrimeCapacity ==
    /\ IsPrimeRef(closed_set.capacity)
    /\ LoadExceeded(closed_set) =>
         LET r == rehash(closed_set)
         IN /\ r.capacity = SmallestPrimeFrom(2 * closed_set.capacity)
            /\ KeyBag(r) = KeyBag(closed_set)
            /\ r.size = closed_set.size
            /\ ~r.spin

C16_Witness ==
    /\ pc = "loop"
    /\ closed_set.capacity = 97
    /\ LoadExceeded(closed_set)
    /\ \E k \in DOMAIN KeyBag(closed_set) : KeyBag(closed_set)[k] > 1

\* where the blank would be after move_board with the i-th offsets
TargetRow(b, i) == ((BlankAt(b) - 1) \div 3) + NEIGHBOR_OFFSETS[i][1]
TargetCol(b, i) == ((BlankAt(b) - 1) % 3) + NEIGHBOR_OFFSETS[i][2]

\* C17: on a permutation of 0 .. 8 move_board returns 1 exactly when the
\* blank's target row or column is off the grid; otherwise it returns 0 and
\* brd_out is brd_in with the blank and the tile at the target swapped, a
\* permutation again; brd_in is unchanged either way.
C17_MoveBoard ==
    pc = "board" =>
        \A i \in 1 .. NEIGHBOR_CNT :
            LET m == move_board(brd, NEIGHBOR_OFFSETS[i][1], NEIGHBOR_OFFSETS[i][2])
                on_grid == TargetRow(brd, i) \in 0 .. 2 /\ TargetCol(brd, i) \in 0 .. 2
                to == 3 * TargetRow(brd, i) + TargetCol(brd, i) + 1
            IN /\ ~m.exit
               /\ m.brd_in = brd
               /\ m.ret = (IF on_grid THEN 0 ELSE 1)
               /\ on_grid =>
                    /\ m.brd_out = [brd EXCEPT ![BlankAt(brd)] = brd[to], ![to] = 0]
                    /\ IsPerm(m.brd_out)
                    /\ Cardinality({j \in 1 .. SIZE : m.brd_out[j] = 0}) = 1

C17_Witness ==
    /\ pc = "board"
    /\ brd = <<1, 2, 0, 4, 5, 3, 7, 8, 6>>
    /\ move_board(brd, 0, 1).ret = 1
    /\ move_board(brd, 1, 0).ret = 0

\* C18: when the search is over, on success and on exhaustion alike, every
\* listed puzzle has been freed exactly once, and none is freed before.
C18_ReleasedOnce ==
    /\ pc \in {"returned", "exit_empty_pop"} =>
          /\ Len(freed) = puzzles.size
          /\ \A p \in 1 .. puzzles.size : \E i \in 1 .. Len(freed) : freed[i] = p
    /\ pc \in {"loop", "solved"} => freed = << >>

\* the puzzles queued in pq
Queued(pq) == {pq.min_heap[i] : i \in 1 .. pq.size}

\* heap[(i - 1) / 4].f <= heap[i].f for every 0 < i < size
HeapOrdered(pq) ==
    \A i \in 1 .. pq.size - 1 :
        NodeF(pq.min_heap[((i - 1) \div 4) + 1]) <= NodeF(pq.min_heap[i + 1])

\* C19: after every push_pq and pop_pq the array is a 4-ary min-heap over
\* 0 .. size - 1 holding each queued puzzle once; push_pq adds exactly the
\* pushed puzzle, pop_pq removes exactly the returned one.
C19_HeapShape ==
    /\ [](pc = "pq" => /\ HeapOrdered(open_set)
                       /\ Cardinality(Queued(open_set)) = open_set.size)
    /\ [][pc = "pq" /\ pc' = "pq" =>
            IF puzzles'.size > puzzles.size
            THEN /\ open_set'.size = open_set.size + 1
                 /\ Queued(open_set') = Queued(open_set) \cup {puzzles'.size}
            ELSE /\ open_set'.size = open_set.size - 1
                 /\ Queued(open_set') = Queued(open_set) \ {pops'[Len(pops')]}
                 /\ pops'[Len(pops')] \in Queued(open_set)]_vars

C19_Witness ==
    /\ pc = "pq"
    /\ Len(pops) = 1
    /\ open_set.size = 5
    /\ NodeF(open_set.min_heap[5]) < NodeF(open_set.min_heap[2])
    /\ NodeF(open_set.min_heap[1]) < NodeF(open_set.min_heap[5])

\* C20: in every state of a run of solve the table of the closed set has an
\* empty slot (size < capacity), and no probe loop runs without end.
C20_EmptySlot ==
    /\ pc # "spin"
    /\ closed_set.size < closed_set.capacity
    /\ \E p \in 1 .. closed_set.capacity : closed_set.table[p] = 0

C20_Witness ==
    /\ pc = "loop"
    /\ closed_set.capacity = 23
    /\ closed_set.size = 17
    /\ LoadExceeded(closed_set)

====
